---- MODULE Spec2Model ----
(***************************************************************************)
(* A model of the bidirectional hash map of src/src/lib.rs: the struct     *)
(* BiMap with its two tables left_to_right and right_to_left, the three    *)
(* generic helpers insert / update / remove that act on "a table and its   *)
(* mirror", and the public methods that call them in either direction.     *)
(*                                                                         *)
(* A call that fails the assertion of insert panics.  The panic unwinds    *)
(* out of the method; the map is left as the code had made it up to that   *)
(* point and stays usable by a caller that catches the unwind, so the      *)
(* model records the outcome of the call and goes on.                      *)
(***************************************************************************)
EXTENDS Integers, FiniteSets, Sequences, TLC

\* Number of distinct keys (type T) and of distinct values (type U).
NumKeys == 3
NumValues == 3

Keys == 1..NumKeys
Values == {NumKeys + i : i \in 1..NumValues}

VARIABLES left_to_right, right_to_left, last, other, inserted, removed

vars == <<left_to_right, right_to_left, last, other, inserted, removed>>

----------------------------------------------------------------------------
(* std::collections::HashMap, as a function on a finite domain.  An        *)
(* Option is a sequence of length at most one: <<>> is None, <<x>> is      *)
(* Some(x).                                                                *)

EmptyMap == [x \in {} |-> x]

contains_key(map, key) == key \in DOMAIN map

MapGet(map, key) == IF key \in DOMAIN map THEN <<map[key]>> ELSE <<>>

MapInsert(map, key, value) ==
    [x \in (DOMAIN map) \cup {key} |-> IF x = key THEN value ELSE map[x]]

MapRemove(map, key) == [x \in (DOMAIN map) \ {key} |-> map[x]]

is_some(opt) == opt # <<>>

unwrap(opt) == opt[1]

----------------------------------------------------------------------------
(* The generic helpers.  Each takes the primary table map1 and its mirror  *)
(* map2 and gives the two tables as the call leaves them.                  *)

get(map, key) == MapGet(map, key)

\* insert with the membership test of the mirror table left out.
insert_NoMirrorCheck(map1, map2, v1, v2) ==
    IF \/ ~contains_key(map1, v1)
       \/ is_some(MapGet(map1, v1)) /\ unwrap(MapGet(map1, v1)) = v2
    THEN [map1 |-> MapInsert(map1, v1, v2),
          map2 |-> MapInsert(map2, v2, v1),
          panicked |-> FALSE]
    ELSE [map1 |-> map1, map2 |-> map2, panicked |-> TRUE]

\* insert that writes both tables before it evaluates the assertion.
insert_WriteFirst(map1, map2, v1, v2) ==
    [map1 |-> MapInsert(map1, v1, v2),
     map2 |-> MapInsert(map2, v2, v1),
     panicked |-> ~(\/ ~contains_key(map1, v1) /\ ~contains_key(map2, v2)
                    \/ is_some(MapGet(map1, v1))
                         /\ unwrap(MapGet(map1, v1)) = v2)]

\* insert that overwrites instead of asserting.
insert_NoAssert(map1, map2, v1, v2) ==
    [map1 |-> MapInsert(map1, v1, v2),
     map2 |-> MapInsert(map2, v2, v1),
     panicked |-> FALSE]

\* insert that forgets to write the mirror table.
insert_NoMirrorWrite(map1, map2, v1, v2) ==
    IF \/ ~contains_key(map1, v1) /\ ~contains_key(map2, v2)
       \/ is_some(MapGet(map1, v1)) /\ unwrap(MapGet(map1, v1)) = v2
    THEN [map1 |-> MapInsert(map1, v1, v2),
          map2 |-> map2,
          panicked |-> FALSE]
    ELSE [map1 |-> map1, map2 |-> map2, panicked |-> TRUE]

\* insert whose assertion lacks the disjunct for an identical pair.
insert_NoReinsert(map1, map2, v1, v2) ==
    IF ~contains_key(map1, v1) /\ ~contains_key(map2, v2)
    THEN [map1 |-> MapInsert(map1, v1, v2),
          map2 |-> MapInsert(map2, v2, v1),
          panicked |-> FALSE]
    ELSE [map1 |-> map1, map2 |-> map2, panicked |-> TRUE]

insert(map1, map2, v1, v2) ==
    IF \/ ~contains_key(map1, v1) /\ ~contains_key(map2, v2)
       \/ is_some(MapGet(map1, v1)) /\ unwrap(MapGet(map1, v1)) = v2
    THEN [map1 |-> MapInsert(map1, v1, v2),
          map2 |-> MapInsert(map2, v2, v1),
          panicked |-> FALSE]
    ELSE [map1 |-> map1, map2 |-> map2, panicked |-> TRUE]

\* remove that forgets the mirror table.
remove_NoMirror(map1, map2, key) ==
    [map1 |-> MapRemove(map1, key),
     map2 |-> map2,
     ret |-> MapGet(map1, key)]

remove(map1, map2, key) ==
    [map1 |-> MapRemove(map1, key),
     map2 |-> IF is_some(MapGet(map1, key))
              THEN MapRemove(map2, unwrap(MapGet(map1, key)))
              ELSE map2,
     ret |-> MapGet(map1, key)]

\* update that returns the value it has just stored.
update_ReturnsNew(map1, map2, v1, v2) ==
    LET rm == remove(map1, map2, v1)
        ins == insert(rm.map1, rm.map2, v1, v2)
    IN  [map1 |-> ins.map1, map2 |-> ins.map2, panicked |-> ins.panicked,
         ret |-> IF ins.panicked THEN <<>> ELSE <<v2>>]

\* update that inserts without removing the old pair first.
update_NoRemove(map1, map2, v1, v2) ==
    LET ins == insert(map1, map2, v1, v2)
    IN  [map1 |-> ins.map1, map2 |-> ins.map2, panicked |-> ins.panicked,
         ret |-> MapGet(map1, v1)]

\* A panic in insert unwinds through update: old_v2 is never returned and
\* the tables stay as remove left them.
update(map1, map2, v1, v2) ==
    LET rm == remove(map1, map2, v1)
        ins == insert(rm.map1, rm.map2, v1, v2)
    IN  [map1 |-> ins.map1, map2 |-> ins.map2, panicked |-> ins.panicked,
         ret |-> IF ins.panicked THEN <<>> ELSE rm.ret]

----------------------------------------------------------------------------
(* The methods of BiMap, as functions of the struct.  Each gives the       *)
(* struct as the call leaves it, whether the call panicked, and the        *)
(* returned Option (<<>> when the method returns nothing).                 *)

BiMap(l2r, r2l) == [left_to_right |-> l2r, right_to_left |-> r2l]

new == BiMap(EmptyMap, EmptyMap)

get_key(self, l) == get(self.left_to_right, l)

get_value(self, r) == get(self.right_to_left, r)

insert_key(self, l, r) ==
    LET res == insert(self.left_to_right, self.right_to_left, l, r)
    IN  [self |-> BiMap(res.map1, res.map2),
         panicked |-> res.panicked, ret |-> <<>>]

insert_value(self, r, l) ==
    LET res == insert(self.right_to_left, self.left_to_right, r, l)
    IN  [self |-> BiMap(res.map2, res.map1),
         panicked |-> res.panicked, ret |-> <<>>]

update_key(self, l, r) ==
    LET res == update(self.left_to_right, self.right_to_left, l, r)
    IN  [self |-> BiMap(res.map1, res.map2),
         panicked |-> res.panicked, ret |-> res.ret]

\* update_value written without the removal of the old pair.
update_value_NoRemove(self, r, l) ==
    LET res == insert(self.right_to_left, self.left_to_right, r, l)
    IN  [self |-> BiMap(res.map2, res.map1),
         panicked |-> res.panicked, ret |-> get(self.right_to_left, r)]

update_value(self, r, l) ==
    LET res == update(self.right_to_left, self.left_to_right, r, l)
    IN  [self |-> BiMap(res.map2, res.map1),
         panicked |-> res.panicked, ret |-> res.ret]

\* remove that unwraps the Option it got from the helper.
remove_key_Unwrap(self, l) ==
    LET res == remove(self.left_to_right, self.right_to_left, l)
    IN  [self |-> BiMap(res.map1, res.map2),
         panicked |-> ~is_some(res.ret), ret |-> res.ret]

remove_key(self, l) ==
    LET res == remove(self.left_to_right, self.right_to_left, l)
    IN  [self |-> BiMap(res.map1, res.map2),
         panicked |-> FALSE, ret |-> res.ret]

remove_value(self, r) ==
    LET res == remove(self.right_to_left, self.left_to_right, r)
    IN  [self |-> BiMap(res.map2, res.map1),
         panicked |-> FALSE, ret |-> res.ret]

len(self) == Cardinality(DOMAIN self.left_to_right)

----------------------------------------------------------------------------
(* The state machine: one BiMap and the record of the last call made on    *)
(* it: the method, its arguments in the order of the signature, the struct *)
(* before the call, how the call ended and what it returned.               *)
(*                                                                         *)
(* Three more variables serve the programs that do more than call methods  *)
(* on one map, and stay as Init sets them in Spec: other is a second       *)
(* BiMap, as in the tests eq and clone; inserted and removed are the keys  *)
(* a program has inserted with success and the keys it has called remove   *)
(* on since.                                                               *)

this == BiMap(left_to_right, right_to_left)

Init ==
    /\ left_to_right = new.left_to_right
    /\ right_to_left = new.right_to_left
    /\ last = [op |-> "new", args |-> <<>>, pre |-> new,
               outcome |-> "ok", ret |-> <<>>]
    /\ other = new
    /\ inserted = {}
    /\ removed = {}

\* A method that only reads: the tables stay, the result is recorded.
Observe(op, args, ret) ==
    /\ last' = [op |-> op, args |-> args, pre |-> this,
                outcome |-> "ok", ret |-> ret]
    /\ UNCHANGED <<left_to_right, right_to_left, other, inserted, removed>>

\* A method that takes &mut self: the tables become what the method left.
Mutate(op, args, res) ==
    /\ left_to_right' = res.self.left_to_right
    /\ right_to_left' = res.self.right_to_left
    /\ last' = [op |-> op, args |-> args, pre |-> this,
                outcome |-> IF res.panicked THEN "panic" ELSE "ok",
                ret |-> res.ret]
    /\ UNCHANGED <<other, inserted, removed>>

CallGetKey(l) == Observe("get_key", <<l>>, get_key(this, l))

CallGetValue(r) == Observe("get_value", <<r>>, get_value(this, r))

CallLen == Observe("len", <<>>, <<len(this)>>)

CallInsertKey(l, r) == Mutate("insert_key", <<l, r>>, insert_key(this, l, r))

CallInsertValue(r, l) ==
    Mutate("insert_value", <<r, l>>, insert_value(this, r, l))

CallUpdateKey(l, r) == Mutate("update_key", <<l, r>>, update_key(this, l, r))

CallUpdateValue(r, l) ==
    Mutate("update_value", <<r, l>>, update_value(this, r, l))

CallRemove(l) == Mutate("remove", <<l>>, remove_key(this, l))

CallRemoveValue(r) == Mutate("remove_value", <<r>>, remove_value(this, r))

Next ==
    \/ \E l \in Keys : CallGetKey(l)
    \/ \E r \in Values : CallGetValue(r)
    \/ CallLen
    \/ \E l \in Keys, r \in Values : CallInsertKey(l, r)
    \/ \E r \in Values, l \in Keys : CallInsertValue(r, l)
    \/ \E l \in Keys, r \in Values : CallUpdateKey(l, r)
    \/ \E r \in Values, l \in Keys : CallUpdateValue(r, l)
    \/ \E l \in Keys : CallRemove(l)
    \/ \E r \in Values : CallRemoveValue(r)

Spec == Init /\ [][Next]_vars

----------------------------------------------------------------------------
(* The program of the tests remove and remove_add, for any pairs: inserts  *)
(* into a new map, then removals of keys that were inserted.  An insert    *)
(* that panics inserts nothing.                                            *)

TripInsert(op, args, l, res) ==
    /\ removed = {}
    /\ left_to_right' = res.self.left_to_right
    /\ right_to_left' = res.self.right_to_left
    /\ last' = [op |-> op, args |-> args, pre |-> this,
                outcome |-> IF res.panicked THEN "panic" ELSE "ok",
                ret |-> res.ret]
    /\ inserted' = IF res.panicked THEN inserted ELSE inserted \cup {l}
    /\ UNCHANGED <<other, removed>>

TripInsertKey(l, r) ==
    TripInsert("insert_key", <<l, r>>, l, insert_key(this, l, r))

TripInsertValue(r, l) ==
    TripInsert("insert_value", <<r, l>>, l, insert_value(this, r, l))

TripRemove(l) ==
    LET res == remove_key(this, l)
    IN  /\ l \in inserted
        /\ left_to_right' = res.self.left_to_right
        /\ right_to_left' = res.self.right_to_left
        /\ last' = [op |-> "remove", args |-> <<l>>, pre |-> this,
                    outcome |-> "ok", ret |-> res.ret]
        /\ removed' = removed \cup {l}
        /\ UNCHANGED <<other, inserted>>

NextRoundTrip ==
    \/ \E l \in Keys, r \in Values : TripInsertKey(l, r)
    \/ \E r \in Values, l \in Keys : TripInsertValue(r, l)
    \/ \E l \in Keys : TripRemove(l)

SpecRoundTrip == Init /\ [][NextRoundTrip]_vars

----------------------------------------------------------------------------
(* The program of the tests eq and clone, for any calls: two maps, each    *)
(* mutated by calls of its own, and the second at times replaced by a      *)
(* clone of the first.  Here last names only what the last step was on:    *)
(* "this", "other" or "clone".                                             *)

\* derive(PartialEq): the structs are equal when both fields are.
eq(a, b) ==
    /\ a.left_to_right = b.left_to_right
    /\ a.right_to_left = b.right_to_left

\* derive(Clone): a struct of the clones of the two fields.
clone(self) == BiMap(self.left_to_right, self.right_to_left)

PairStep(on) ==
    last' = [op |-> on, args |-> <<>>, pre |-> new,
             outcome |-> "ok", ret |-> <<>>]

PairThis(res) ==
    /\ left_to_right' = res.self.left_to_right
    /\ right_to_left' = res.self.right_to_left
    /\ PairStep("this")
    /\ UNCHANGED <<other, inserted, removed>>

PairOther(res) ==
    /\ other' = res.self
    /\ PairStep("other")
    /\ UNCHANGED <<left_to_right, right_to_left, inserted, removed>>

PairClone ==
    /\ other' = clone(this)
    /\ PairStep("clone")
    /\ UNCHANGED <<left_to_right, right_to_left, inserted, removed>>

NextPair ==
    \/ \E l \in Keys, r \in Values : PairThis(insert_key(this, l, r))
    \/ \E r \in Values, l \in Keys : PairThis(insert_value(this, r, l))
    \/ \E l \in Keys, r \in Values : PairThis(update_key(this, l, r))
    \/ \E r \in Values, l \in Keys : PairThis(update_value(this, r, l))
    \/ \E l \in Keys : PairThis(remove_key(this, l))
    \/ \E r \in Values : PairThis(remove_value(this, r))
    \/ \E l \in Keys, r \in Values : PairOther(insert_key(other, l, r))
    \/ \E r \in Values, l \in Keys : PairOther(insert_value(other, r, l))
    \/ \E l \in Keys, r \in Values : PairOther(update_key(other, l, r))
    \/ \E r \in Values, l \in Keys : PairOther(update_value(other, r, l))
    \/ \E l \in Keys : PairOther(remove_key(other, l))
    \/ \E r \in Values : PairOther(remove_value(other, r))
    \/ PairClone

SpecPair == Init /\ [][NextPair]_vars

----------------------------------------------------------------------------
(* Vocabulary of the properties.                                           *)

\* f and b are inverse functions of each other.
IsInverse(f, b) ==
    /\ \A k \in DOMAIN f : f[k] \in DOMAIN b /\ b[f[k]] = k
    /\ \A v \in DOMAIN b : b[v] \in DOMAIN f /\ f[b[v]] = v

\* The pairs both lookups of self agree on.
ConsistentPairs(self) ==
    {p \in Keys \X Values : /\ get_key(self, p[1]) = <<p[2]>>
                            /\ get_value(self, p[2]) = <<p[1]>>}

\* Inserting (k, v) into self would give k or v a second counterpart.
Collides(self, k, v) ==
    \/ get_key(self, k) # <<>> /\ get_key(self, k) # <<v>>
    \/ get_value(self, v) # <<>> /\ get_value(self, v) # <<k>>

Failed == last.outcome = "panic"

Unchanged == this = last.pre

----------------------------------------------------------------------------
\* C1: in every reachable state the forward and the backward table are
\* inverse functions of each other, they have the same number of entries,
\* and len() is that number, the number of consistent pairs.
C1_TablesAreInverse ==
    /\ IsInverse(left_to_right, right_to_left)
    /\ Cardinality(DOMAIN left_to_right) = Cardinality(DOMAIN right_to_left)
    /\ len(this) = Cardinality(DOMAIN right_to_left)
    /\ len(this) = Cardinality(ConsistentPairs(this))

\* An update has replaced the value of a key in a map that holds two pairs.
C1_Witness ==
    /\ last.op = "update_key"
    /\ ~Failed
    /\ last.ret # <<>>
    /\ last.ret # <<last.args[2]>>
    /\ len(this) = 2

\* C2: insert(k, v) fails if k is associated with a value other than v or v
\* is associated with a key other than k, and succeeds in every other case.
C2_InsertFailsExactlyOnCollision ==
    last.op = "insert_key" =>
        (Failed <=> Collides(last.pre, last.args[1], last.args[2]))

\* An insert has failed because its value belonged to another key, its own
\* key being absent.
C2_Witness ==
    /\ last.op = "insert_key"
    /\ Failed
    /\ get_key(last.pre, last.args[1]) = <<>>
    /\ get_value(last.pre, last.args[2]) # <<>>

\* C3: once insert(k, v) has succeeded, a call insert(k, v2) with v2 # v
\* fails and changes nothing: both tables are as before the call,
\* get_by_key(k) is still v and len is the same.
C3_CollidingInsertChangesNothing ==
    [][(/\ last.op = "insert_key"
        /\ last.outcome = "ok"
        /\ last'.op = "insert_key"
        /\ last'.args[1] = last.args[1]
        /\ last'.args[2] # last.args[2])
       => (/\ last'.outcome = "panic"
           /\ left_to_right' = left_to_right
           /\ right_to_left' = right_to_left
           /\ get_key(this, last.args[1])' = <<last.args[2]>>
           /\ len(this)' = len(this))]_vars

\* An insert of a second value for a present key has failed and left the
\* tables as they were.
C3_Witness ==
    /\ last.op = "insert_key"
    /\ Failed
    /\ get_key(last.pre, last.args[1]) # <<>>
    /\ get_key(last.pre, last.args[1]) # <<last.args[2]>>
    /\ get_key(this, last.args[1]) = get_key(last.pre, last.args[1])
    /\ Unchanged

\* C4: when update_key(k, new_v) is called with k present and new_v
\* associated with a different key, the update fails and both tables equal
\* their contents before the call, the removed pair (k, old_v) being
\* restored; likewise for update_value on the value side.
C4_FailedUpdateRollsBack ==
    /\ (/\ last.op = "update_key"
        /\ get_key(last.pre, last.args[1]) # <<>>
        /\ get_value(last.pre, last.args[2]) # <<>>
        /\ get_value(last.pre, last.args[2]) # <<last.args[1]>>)
       => Failed /\ Unchanged
    /\ (/\ last.op = "update_value"
        /\ get_value(last.pre, last.args[1]) # <<>>
        /\ get_key(last.pre, last.args[2]) # <<>>
        /\ get_key(last.pre, last.args[2]) # <<last.args[1]>>)
       => Failed /\ Unchanged

\* C5, as the spec states it: no insert or update call ends in a panic.
C5_NoCallPanics ==
    last.op \in {"insert_key", "insert_value", "update_key", "update_value"}
        => ~Failed

\* C5, amended: a collision detected by insert, directly or through update,
\* ends the call in the panic of the failed assertion, and an insert or
\* update call that meets no collision ends without a panic.  The insert
\* inside update sees the map with the old pair of its first argument
\* removed.
C5_PanicExactlyOnCollision ==
    /\ last.op = "insert_key" =>
           (Failed <=> Collides(last.pre, last.args[1], last.args[2]))
    /\ last.op = "insert_value" =>
           (Failed <=> Collides(last.pre, last.args[2], last.args[1]))
    /\ last.op = "update_key" =>
           (Failed <=> Collides(remove_key(last.pre, last.args[1]).self,
                                last.args[1], last.args[2]))
    /\ last.op = "update_value" =>
           (Failed <=> Collides(remove_value(last.pre, last.args[1]).self,
                                last.args[2], last.args[1]))

\* An update on the value side has panicked.
C5_Witness ==
    /\ last.op = "update_value"
    /\ Failed
    /\ get_key(last.pre, last.args[2]) # <<>>

\* C6: if neither k nor v appears in the map, insert(k, v) adds exactly the
\* pair (k, v): get_by_key(k) = v, get_by_value(v) = k, every other entry
\* of either table is as before, and len is one greater.
C6_InsertOfFreshPair ==
    (/\ last.op = "insert_key"
     /\ get_key(last.pre, last.args[1]) = <<>>
     /\ get_value(last.pre, last.args[2]) = <<>>)
    => (/\ ~Failed
        /\ get_key(this, last.args[1]) = <<last.args[2]>>
        /\ get_value(this, last.args[2]) = <<last.args[1]>>
        /\ \A k \in Keys \ {last.args[1]} :
               get_key(this, k) = get_key(last.pre, k)
        /\ \A v \in Values \ {last.args[2]} :
               get_value(this, v) = get_value(last.pre, v)
        /\ len(this) = len(last.pre) + 1)

\* A fresh pair has been inserted into a map that already held one.
C6_Witness ==
    /\ last.op = "insert_key"
    /\ ~Failed
    /\ get_key(last.pre, last.args[1]) = <<>>
    /\ get_value(last.pre, last.args[2]) = <<>>
    /\ len(last.pre) = 1
    /\ len(this) = 2

\* C7: insert is idempotent: if k is already associated with exactly v, and
\* in particular right after a successful insert(k, v), insert(k, v)
\* succeeds and leaves len and both tables as they were.
C7_InsertIsIdempotent ==
    [][(/\ last'.op = "insert_key"
        /\ \/ get_key(this, last'.args[1]) = <<last'.args[2]>>
           \/ /\ last.op = "insert_key"
              /\ last.outcome = "ok"
              /\ last.args = last'.args)
       => (/\ last'.outcome = "ok"
           /\ left_to_right' = left_to_right
           /\ right_to_left' = right_to_left
           /\ len(this)' = len(this))]_vars

\* A pair that was present has been inserted again, with success and
\* without a change.
C7_Witness ==
    /\ last.op = "insert_key"
    /\ ~Failed
    /\ get_key(last.pre, last.args[1]) = <<last.args[2]>>
    /\ Unchanged
    /\ len(this) = 2

\* C8: insert_value(v, k) and insert_key(k, v) are the same operation: made
\* on the same map, they succeed or fail together and, when they succeed,
\* leave the same map.
C8_InsertValueIsInsertKey ==
    /\ last.op = "insert_value" =>
           LET byKey == insert_key(last.pre, last.args[2], last.args[1])
           IN  /\ Failed <=> byKey.panicked
               /\ ~Failed => this = byKey.self
    /\ last.op = "insert_key" =>
           LET byValue == insert_value(last.pre, last.args[2], last.args[1])
           IN  /\ Failed <=> byValue.panicked
               /\ ~Failed => this = byValue.self

\* insert_value has failed on a value that is free, because the key it was
\* given is taken.
C8_Witness ==
    /\ last.op = "insert_value"
    /\ Failed
    /\ get_value(last.pre, last.args[1]) = <<>>
    /\ get_key(last.pre, last.args[2]) # <<>>

\* C9: if k is present with value old_v and new_v does not appear in the
\* map, update_key(k, new_v) returns old_v and replaces the pair:
\* get_by_key(k) = new_v, get_by_value(new_v) = k, get_by_value(old_v) is
\* absent and len is unchanged.
C9_UpdateReplacesPair ==
    (/\ last.op = "update_key"
     /\ get_key(last.pre, last.args[1]) # <<>>
     /\ get_value(last.pre, last.args[2]) = <<>>)
    => (/\ ~Failed
        /\ last.ret = get_key(last.pre, last.args[1])
        /\ get_key(this, last.args[1]) = <<last.args[2]>>
        /\ get_value(this, last.args[2]) = <<last.args[1]>>
        /\ get_value(this, unwrap(get_key(last.pre, last.args[1]))) = <<>>
        /\ len(this) = len(last.pre))

\* The value of a present key has been replaced by a value that was absent,
\* next to another pair.
C9_Witness ==
    /\ last.op = "update_key"
    /\ ~Failed
    /\ get_key(last.pre, last.args[1]) # <<>>
    /\ get_value(last.pre, last.args[2]) = <<>>
    /\ last.ret # <<>>
    /\ len(this) = 2

\* C10: if k is absent, update_key(k, new_v) does what insert(k, new_v)
\* does on the same map: it fails when insert fails, it leaves the tables
\* insert leaves, and when it returns it returns absent.
C10_UpdateOfAbsentKeyIsInsert ==
    (/\ last.op = "update_key"
     /\ get_key(last.pre, last.args[1]) = <<>>)
    => LET ins == insert_key(last.pre, last.args[1], last.args[2])
       IN  /\ Failed <=> ins.panicked
           /\ this = ins.self
           /\ ~Failed => last.ret = <<>>

\* update_key on an absent key has added a pair and returned absent.
C10_Witness ==
    /\ last.op = "update_key"
    /\ ~Failed
    /\ get_key(last.pre, last.args[1]) = <<>>
    /\ last.ret = <<>>
    /\ len(this) = len(last.pre) + 1
    /\ len(this) = 2

\* C11: if k is present with value v, remove(k) returns v and deletes both
\* mirrored entries: get_by_key(k) and get_by_value(v) are absent afterwards
\* and len is one less than before.
C11_RemoveDeletesBothEntries ==
    (/\ last.op = "remove"
     /\ get_key(last.pre, last.args[1]) # <<>>)
    => (/\ ~Failed
        /\ last.ret = get_key(last.pre, last.args[1])
        /\ get_key(this, last.args[1]) = <<>>
        /\ get_value(this, unwrap(get_key(last.pre, last.args[1]))) = <<>>
        /\ len(this) = len(last.pre) - 1)

\* A present key has been removed from a map of two pairs.
C11_Witness ==
    /\ last.op = "remove"
    /\ last.ret # <<>>
    /\ len(last.pre) = 2
    /\ len(this) = 1

\* C12: a lookup or a removal of an absent key or value is not an error: in
\* every reachable map, the empty one included, get_key, get_value, remove
\* and remove_value return absent without failing and leave both tables and
\* len as they were.
C12_MissIsNotAnError ==
    (\/ /\ last.op \in {"get_key", "remove"}
        /\ get_key(last.pre, last.args[1]) = <<>>
     \/ /\ last.op \in {"get_value", "remove_value"}
        /\ get_value(last.pre, last.args[1]) = <<>>)
    => (/\ ~Failed
        /\ last.ret = <<>>
        /\ Unchanged
        /\ len(this) = len(last.pre))

\* A removal has missed in a map that holds a pair.
C12_Witness ==
    /\ last.op = "remove"
    /\ get_key(last.pre, last.args[1]) = <<>>
    /\ last.ret = <<>>
    /\ len(this) = 1

\* C15: no call, a failed insert or update included, leaves an entry in one
\* table without its mirror in the other: in the state a failed insert_key,
\* insert_value, update_key or update_value leaves behind, every forward
\* entry is mirrored backward, every backward entry is mirrored forward, and
\* the tables have equally many entries.
C15_FailedCallLeavesMirroredTables ==
    (/\ last.op \in {"insert_key", "insert_value",
                     "update_key", "update_value"}
     /\ Failed)
    => (/\ \A k \in Keys : \A v \in Values :
               get_key(this, k) = <<v>> <=> get_value(this, v) = <<k>>
        /\ Cardinality(DOMAIN this.left_to_right)
               = Cardinality(DOMAIN this.right_to_left))

\* An update of a present key has failed and has left a map that still
\* holds a pair.
C15_Witness ==
    /\ last.op = "update_key"
    /\ Failed
    /\ get_key(last.pre, last.args[1]) # <<>>
    /\ len(this) = 1

\* The struct with the roles of its two tables exchanged.
Swap(self) == BiMap(self.right_to_left, self.left_to_right)

\* C16: the value-side operations mirror the key-side ones: update_value(v,
\* k) and remove_value(v) on a map give the result, and leave the map, that
\* update_key(v, k) and remove(v) give on the map with the forward and
\* backward tables exchanged.
C16_ValueSideMirrorsKeySide ==
    /\ last.op = "update_value" =>
           LET m == update_key(Swap(last.pre), last.args[1], last.args[2])
           IN  /\ Failed <=> m.panicked
               /\ last.ret = m.ret
               /\ this = Swap(m.self)
    /\ last.op = "remove_value" =>
           LET m == remove_key(Swap(last.pre), last.args[1])
           IN  /\ Failed <=> m.panicked
               /\ last.ret = m.ret
               /\ this = Swap(m.self)

\* update_value has moved a present value to a key that was absent.
C16_Witness ==
    /\ last.op = "update_value"
    /\ ~Failed
    /\ last.ret # <<>>
    /\ last.ret # <<last.args[2]>>
    /\ get_key(this, last.args[2]) = <<last.args[1]>>
    /\ len(this) = 2

C18_UpdateFailsExactlyOnForeignValue ==
    /\ last.op = "update_key" =>
           (Failed <=> /\ get_value(last.pre, last.args[2]) # <<>>
                       /\ get_value(last.pre, last.args[2]) # <<last.args[1]>>)
    /\ last.op = "update_value" =>
           (Failed <=> /\ get_key(last.pre, last.args[2]) # <<>>
                       /\ get_key(last.pre, last.args[2]) # <<last.args[1]>>)

\* update_key has failed for an absent key, its value belonging to another
\* key.
C18_Witness ==
    /\ last.op = "update_key"
    /\ Failed
    /\ get_key(last.pre, last.args[1]) = <<>>
    /\ get_value(last.pre, last.args[2]) # <<>>

\* C19: updating a key to the value it has changes nothing: if k is
\* associated with v, update_key(k, v) succeeds, returns v and leaves both
\* tables and len as before the call.
C19_UpdateToSameValueIsNoOp ==
    (/\ last.op = "update_key"
     /\ get_key(last.pre, last.args[1]) = <<last.args[2]>>)
    => (/\ ~Failed
        /\ last.ret = <<last.args[2]>>
        /\ Unchanged
        /\ len(this) = len(last.pre))

\* A key of a map of two pairs has been updated to its own value.
C19_Witness ==
    /\ last.op = "update_key"
    /\ ~Failed
    /\ get_key(last.pre, last.args[1]) = <<last.args[2]>>
    /\ last.ret = <<last.args[2]>>
    /\ len(this) = 2

\* The pair the last call names: its two arguments for insert_key and
\* update_key; none for remove, which adds nothing.
NamedPairs ==
    IF last.op = "remove" THEN {} ELSE {<<last.args[1], last.args[2]>>}

\* C20: a successful insert(k, v), update_key(k, v) or remove(k) touches
\* only the pairs it names: every pair (k2, v2) of the map before the call
\* with k2 # k is still there in both tables, and no entry of either table
\* is new except those of the pair (k, v).
C20_MutationTouchesOnlyItsPair ==
    (/\ last.op \in {"insert_key", "update_key", "remove"}
     /\ ~Failed)
    => (/\ \A k2 \in Keys \ {last.args[1]} : \A v2 \in Values :
               get_key(last.pre, k2) = <<v2>>
                   => /\ get_key(this, k2) = <<v2>>
                      /\ get_value(this, v2) = <<k2>>
        /\ \A k2 \in Keys : \A v2 \in Values :
               (/\ get_key(this, k2) = <<v2>>
                /\ get_key(last.pre, k2) # <<v2>>) => <<k2, v2>> \in NamedPairs
        /\ \A k2 \in Keys : \A v2 \in Values :
               (/\ get_value(this, v2) = <<k2>>
                /\ get_value(last.pre, v2) # <<k2>>)
                   => <<k2, v2>> \in NamedPairs)

\* update_key has replaced the value of one key of a map of two pairs.
C20_Witness ==
    /\ last.op = "update_key"
    /\ ~Failed
    /\ last.ret # <<>>
    /\ last.ret # <<last.args[2]>>
    /\ len(last.pre) = 2
    /\ \E k2 \in Keys \ {last.args[1]} :
           /\ get_key(this, k2) # <<>>
           /\ get_key(this, k2) = get_key(last.pre, k2)

\* C13: round trip: after any sequence of inserts into a new map, followed
\* by remove(k) on every key whose insert succeeded, the map is empty: len
\* is 0, both tables are empty and every lookup by key or by value is
\* absent.
C13_RoundTripEndsEmpty ==
    removed = inserted
    => (/\ len(this) = 0
        /\ DOMAIN left_to_right = {}
        /\ DOMAIN right_to_left = {}
        /\ \A k \in Keys : get_key(this, k) = <<>>
        /\ \A v \in Values : get_value(this, v) = <<>>)

\* Three keys have been inserted and the last of them has just been
\* removed.
C13_Witness ==
    /\ Cardinality(inserted) = 3
    /\ removed = inserted
    /\ last.op = "remove"
    /\ last.ret # <<>>

\* C14: two maps, whatever calls made them, are equal by the derived
\* equality exactly when their forward tables are equal; a clone is equal
\* to its original right after the cloning, and a later call on one of the
\* two maps leaves the other as it was.
C14_EqualIffForwardEqual ==
    /\ [](/\ eq(this, other) <=> this.left_to_right = other.left_to_right
          /\ last.op = "clone" => eq(this, other))
    /\ [][/\ last'.op = "this" => other' = other
          /\ last'.op = "other" => this' = this]_vars

\* The two maps hold the same two pairs, and the last call was made on the
\* second one, not a clone.
C14_Witness ==
    /\ last.op = "other"
    /\ eq(this, other)
    /\ len(this) = 2

====
